---- MODULE Spec2Model ----
(***************************************************************************)
(* scout-bot: the polling loop of core/base_scout.py (BaseScout.run), the  *)
(* run-number store and the Telegram sink of core/utils.py, and the search *)
(* protocol and result parser of scouts/vhs_berlin.py (VHSBerlinScout).    *)
(*                                                                         *)
(* The web server, the Telegram API and the file system are the            *)
(* environment: every response they give is drawn from a bounded set.      *)
(***************************************************************************)
EXTENDS Integers, Sequences, FiniteSets, TLC

(* ---------------------------------------------------------------------- *)
(* Bounds of the model                                                     *)
(* ---------------------------------------------------------------------- *)

\* largest MAX_ATTEMPTS value the configuration is drawn from
MaxAttempts == 4

\* largest base delay, in seconds, that sleep is tried with (also negated)
MaxBase == 6

\* number of runs of the endless loop that are explored
MaxRuns == 2

\* largest run number found in run_number.txt at process start
MaxStored == 1

(* ---------------------------------------------------------------------- *)
(* Pages: the part of a response body that parse_results reads             *)
(* ---------------------------------------------------------------------- *)

\* Python's None
None == [none |-> TRUE]

\* the text safe_text returns for a missing cell
NA == "N/A"

\* a table cell that is absent from a row
NoCell == "<absent>"

\* a row tr.DataGridItem with its three cells
Row(d, t, p) == [district |-> d, course_title |-> t, free_places |-> p]

\* a word and an integer of the summary text
Word(w) == [digits |-> FALSE, n |-> 0, w |-> w]
Num(k)  == [digits |-> TRUE, n |-> k, w |-> ""]

\* the message of the error label when the search found no course
NoCoursesMsg == "Zu Ihrer Suche wurden keine Kurse gefunden."

\* the marker of the result list's title
Marker == "Kursliste"

\* An element that may be missing is <<>> when missing, else <<text>>.
\* error_el : #ctl00_Content_ErrorMessage1_lblError, its text a sequence of sentences
\* title    : #ctl00_Content_lblTitle, its text a sequence of words
\* summary  : #ctl00_Content_lblMessage1All, its text a sequence of words and integers
\* rows     : the rows tr.DataGridItem in page order
Page(e, t, s, r) == [error_el |-> e, title |-> t, summary |-> s, rows |-> r]

PageNoCourses == Page(<< <<NoCoursesMsg>> >>, << <<Marker>> >>,
                      << <<Word("Kurse"), Num(2)>> >>,
                      <<Row("Mitte", "Yoga", "3")>>)
PageOther     == Page(<<>>, << <<"Startseite">> >>,
                      << <<Word("Kurse"), Num(1)>> >>,
                      <<Row("Mitte", "Yoga", "3")>>)
PageCourses   == Page(<<>>, << <<Marker>> >>,
                      << <<Word("Kurse"), Num(2), Word("von"), Num(7)>> >>,
                      <<Row("Mitte", "Yoga", "3")>>)
PageEmptyList == Page(<<>>, << <<"Ihre", Marker>> >>, << <<Word("Kurse")>> >>, <<>>)

\* bodies a final response may carry
Pages == {PageNoCourses, PageOther, PageCourses, PageEmptyList}

\* "needle in text": the text contains the needle
Contains(text, needle) == \E i \in DOMAIN text : text[i] = needle

\* a test that wants the error label to hold the message and nothing else
HasNoCoursesMessageExact(error_el) ==
    error_el # <<>> /\ error_el[1] = <<NoCoursesMsg>>

\* error_el and "Zu Ihrer Suche ..." in error_el.text
HasNoCoursesMessage(error_el) ==
    error_el # <<>> /\ Contains(error_el[1], NoCoursesMsg)

\* a test that lets a page without title element pass
ContainsMarkerOrMissing(title_el) ==
    title_el = <<>> \/ Contains(title_el[1], Marker)

\* title_el and "Kursliste" in title_el.text
ContainsMarker(title_el) ==
    title_el # <<>> /\ Contains(title_el[1], Marker)

\* re.match instead of re.search: an integer only at the start of the text
FirstIntAtStart(tokens) ==
    IF tokens # <<>> /\ Head(tokens).digits THEN Head(tokens).n ELSE -1

\* re.search(r"\d+", count_text): the first integer of the text, -1 when none
RECURSIVE FirstInt(_)
FirstInt(tokens) ==
    IF tokens = <<>> THEN -1
    ELSE IF Head(tokens).digits THEN Head(tokens).n
    ELSE FirstInt(Tail(tokens))

\* safe_text(sel): the cell's text, "N/A" when the cell is missing
safe_text(cell) == IF cell = NoCell THEN NA ELSE cell

\* the dictionary built for one row
course(row) ==
    [district     |-> safe_text(row.district),
     course_title |-> safe_text(row.course_title),
     free_places  |-> safe_text(row.free_places)]

\* a parser that tags the page it does not recognise
parse_results_tagged(page) ==
    IF HasNoCoursesMessage(page.error_el)
    THEN [success |-> FALSE, has_courses |-> FALSE]
    ELSE IF ~ContainsMarker(page.title)
    THEN [success |-> FALSE, has_courses |-> FALSE, unrecognized |-> TRUE]
    ELSE LET count_text == IF page.summary = <<>> THEN <<>> ELSE page.summary[1]
             m == FirstInt(count_text)
         IN  [success      |-> TRUE,
              has_courses  |-> TRUE,
              course_count |-> IF m >= 0 THEN m ELSE 0,
              courses      |-> [i \in 1..Len(page.rows) |-> course(page.rows[i])]]

\* VHSBerlinScout.parse_results
parse_results(page) ==
    IF HasNoCoursesMessage(page.error_el)
    THEN [success |-> FALSE, has_courses |-> FALSE]
    ELSE IF ~ContainsMarker(page.title)
    THEN [success |-> FALSE, has_courses |-> FALSE]
    ELSE LET count_text == IF page.summary = <<>> THEN <<>> ELSE page.summary[1]
             m == FirstInt(count_text)
         IN  [success      |-> TRUE,
              has_courses  |-> TRUE,
              course_count |-> IF m >= 0 THEN m ELSE 0,
              courses      |-> [i \in 1..Len(page.rows) |-> course(page.rows[i])]]

\* the pages the parser is tried on: every combination of these parts
ErrorLabels ==
    {<<>>,
     << <<"Bitte geben Sie einen Suchbegriff ein.">> >>,
     << <<NoCoursesMsg>> >>,
     << <<"Hinweis:", NoCoursesMsg>> >>}

Titles ==
    {<<>>, << <<>> >>, << <<"Startseite">> >>, << <<Marker>> >>,
     << <<"Ihre", Marker>> >>}

Summaries ==
    {<<>>,
     << <<Word("Kurse")>> >>,
     << <<Num(0), Word("Kurse")>> >>,
     << <<Num(3)>> >>,
     << <<Word("Kurse"), Num(2), Word("von"), Num(7)>> >>}

RowLists ==
    LET yoga  == Row("Mitte", "Yoga", "3")
        tango == Row("Pankow", "Tango", "0")
        bare  == Row(NoCell, "Deutsch B1", NoCell)
    IN  {<<>>, <<yoga>>, <<yoga, tango>>, <<tango, yoga>>, <<bare>>,
         <<yoga, bare, yoga>>}

AllPages ==
    {Page(e, t, sm, r) : e \in ErrorLabels, t \in Titles, sm \in Summaries,
                         r \in RowLists}

(* ---------------------------------------------------------------------- *)
(* The web site: what it answers to the requests of one search attempt     *)
(* ---------------------------------------------------------------------- *)

\* a response without a Location header
NoLoc == "<none>"

\* the paths of the site: the search form (config URL) and three redirect targets
Paths == {"/search", "/A", "/B", "/C"}

Resp(s, l, b) == [status |-> s, loc |-> l, body |-> b]

\* the answer of a path that no scenario requests
Idle == Resp(404, NoLoc, PageOther)

\* the hidden inputs _get_hidden_inputs looks for, in its order
HiddenNames == <<"__VIEWSTATE", "__VIEWSTATEGENERATOR", "__LASTFOCUS",
                 "__EVENTTARGET", "__EVENTARGUMENT", "__SCROLLPOSITIONX",
                 "__SCROLLPOSITIONY">>

HiddenSet == {HiddenNames[i] : i \in DOMAIN HiddenNames}

\* an input element that carries no value attribute
NoValue == "<no value attribute>"

\* the body of the form page: for each hidden name NoCell when the page has
\* no such input, NoValue when the input has no value attribute, else the
\* value of its value attribute
FormBody(h) == [hidden |-> h]

\* a form with all seven inputs
FullForm ==
    FormBody([x \in HiddenSet |->
                 CASE x = "__VIEWSTATE" -> "dDwtMTA4"
                   [] x = "__VIEWSTATEGENERATOR" -> "CA0B0334"
                   [] x = "__SCROLLPOSITIONX" -> "0"
                   [] x = "__SCROLLPOSITIONY" -> "120"
                   [] OTHER -> ""])

\* a form with the view state only
PartialForm ==
    FormBody([x \in HiddenSet |->
                 IF x = "__VIEWSTATE" THEN "dDwtMTA4" ELSE NoCell])

\* a page without any of the inputs
EmptyForm == FormBody([x \in HiddenSet |-> NoCell])

\* a form whose __LASTFOCUS input is written without a value attribute
BareInputForm ==
    FormBody([x \in HiddenSet |->
                 CASE x = "__VIEWSTATE" -> "dDwtMTA4"
                   [] x = "__LASTFOCUS" -> NoValue
                   [] OTHER -> NoCell])

\* the form page
FormPage == Resp(200, NoLoc, FullForm)

\* _get_hidden_inputs: tag["value"] raises KeyError when the input has no
\* value attribute
_get_hidden_inputs(body) ==
    [raised |-> \E x \in HiddenSet : body.hidden[x] = NoValue,
     inputs |-> [x \in HiddenSet |->
                    IF body.hidden[x] = NoCell THEN "" ELSE body.hidden[x]]]

\* config KEYWORD_SELECTION_VALUE
Keyword == "4711"

\* the static fields of the search form
StaticFields ==
    {"ctl00$Content$btnSearch",
     "ctl00$Content$SimpleSearch1$SimpleSearchBox$txtSearchTerm",
     "ctl00$Content$KeywordsList1$cmbKeyword",
     "ctl00$Content$AreaList1$cmbDistricts",
     "ctl00$Content$AdvancedSearch1$SearchBox1$txtSearchTerm",
     "ctl00$Content$KeywordsListAdvanced1$cmbKeyword",
     "ctl00$Content$AreaListAdvanced1$CheckBoxListDistricts$0",
     "ctl00$Content$LyceumSelection1$cmbLyceum",
     "ctl00$Content$TimeDependingInput1$cmbTimeStructur",
     "ctl00$Content$TimeDependingInput1$txtCourseInstructor",
     "ctl00$Content$TimeDependingInput1$txtBeginFrom",
     "ctl00$Content$TimeDependingInput1$txtEndTo",
     "ctl00$Content$CourseNumber1$searchBoxCourseNr$txtSearchTerm"}

\* _build_search_payload
_build_search_payload(hidden_inputs) ==
    [k \in HiddenSet \cup StaticFields |->
        CASE k \in HiddenSet -> hidden_inputs[k]
          [] k = "ctl00$Content$btnSearch" -> "Suchen"
          [] k = "ctl00$Content$KeywordsList1$cmbKeyword" -> Keyword
          [] k \in {"ctl00$Content$AreaList1$cmbDistricts",
                    "ctl00$Content$AreaListAdvanced1$CheckBoxListDistricts$0",
                    "ctl00$Content$LyceumSelection1$cmbLyceum",
                    "ctl00$Content$TimeDependingInput1$cmbTimeStructur"} -> "0"
          [] k = "ctl00$Content$KeywordsListAdvanced1$cmbKeyword" -> "-1"
          [] OTHER -> ""]

Site(s, p, a, b, c) ==
    [get  |-> [x \in Paths |-> CASE x = "/search" -> s
                                 [] x = "/A" -> a
                                 [] x = "/B" -> b
                                 [] x = "/C" -> c],
     post |-> p]

\* answers that end a chain at /A, /B and /C
EndA == {Resp(st, NoLoc, b) : st \in {200, 302, 404}, b \in Pages}
EndB == {Resp(st, NoLoc, b) : st \in {200, 302, 404}, b \in Pages}
EndC == {Resp(200, NoLoc, b) : b \in Pages} \cup {Resp(404, NoLoc, PageOther)}

\* the POST's answer and /A's answer when they redirect further
PostToA == Resp(302, "/A", PageOther)
AToB    == Resp(302, "/B", PageCourses)
BToC    == Resp(302, "/C", PageOther)

\* the behaviours of the site during one attempt; a path that the attempt
\* cannot reach answers Idle
Servers ==
    {Site(Resp(st, NoLoc, EmptyForm), Idle, Idle, Idle, Idle) : st \in {404, 500}}
    \cup {Site(Resp(304, NoLoc, EmptyForm), Resp(200, NoLoc, PageOther),
                Idle, Idle, Idle)}
    \cup {Site(Resp(200, NoLoc, f), Resp(200, NoLoc, PageCourses), Idle, Idle, Idle) :
             f \in {PartialForm, EmptyForm}}
    \cup {Site(Resp(200, NoLoc, BareInputForm), Idle, Idle, Idle, Idle)}
    \cup {Site(FormPage, Resp(500, NoLoc, PageOther), Idle, Idle, Idle)}
    \cup {Site(FormPage, Resp(st, NoLoc, b), Idle, Idle, Idle) :
             st \in {200, 302}, b \in Pages}
    \cup {Site(FormPage, PostToA, a, Idle, Idle) : a \in EndA}
    \cup {Site(FormPage, PostToA, AToB, b, Idle) : b \in EndB}
    \cup {Site(FormPage, PostToA, AToB, BToC, c) : c \in EndC}

\* one request as the session sends it
Req(m, path, follow) == [method |-> m, path |-> path, allow_redirects |-> follow]

\* requests: Response.is_redirect
is_redirect(resp) == resp.loc # NoLoc /\ resp.status \in {301, 302, 303, 307, 308}

\* requests: Response.raise_for_status raises HTTPError on 4xx and 5xx
raise_for_status(resp) == resp.status >= 400 /\ resp.status < 600

\* session.get(url, allow_redirects=...): the response the session returns and
\* the GETs it sent; with allow_redirects the session follows the chain itself
RECURSIVE session_get(_, _, _)
session_get(srv, path, allow_redirects) ==
    LET r == srv.get[path]
    IN  IF allow_redirects /\ is_redirect(r)
        THEN LET rest == session_get(srv, r.loc, TRUE)
             IN  [resp |-> rest.resp,
                  reqs |-> <<Req("GET", path, allow_redirects)>> \o rest.reqs]
        ELSE [resp |-> r, reqs |-> <<Req("GET", path, allow_redirects)>>]

\* an exception: its message and the status code the message carries
Error(msg, st) == [msg |-> msg, status |-> st]
NoError == Error("", 0)

Raise(e, reqs) == [raised |-> TRUE, err |-> e, text |-> None, reqs |-> reqs]
Return(text, reqs) == [raised |-> FALSE, err |-> NoError, text |-> text, reqs |-> reqs]

\* a resolution that returns the first redirect target's answer as it is
_follow_redirects_one_hop(srv, initial_response) ==
    IF initial_response.status = 200 \/ initial_response.loc = NoLoc
    THEN Return(initial_response.body, <<>>)
    ELSE LET g1 == session_get(srv, initial_response.loc, FALSE)
         IN  Return(g1.resp.body, g1.reqs)

\* a resolution whose second GET also disables redirect following
_follow_redirects_no_follow(srv, initial_response) ==
    IF initial_response.status = 200 \/ initial_response.loc = NoLoc
    THEN Return(initial_response.body, <<>>)
    ELSE LET g1 == session_get(srv, initial_response.loc, FALSE)
             r1 == g1.resp
         IN  IF r1.status = 200 \/ r1.loc = NoLoc
             THEN Return(r1.body, g1.reqs)
             ELSE LET g2 == session_get(srv, r1.loc, FALSE)
                      r2 == g2.resp
                  IN  IF raise_for_status(r2)
                      THEN Raise(Error("HTTPError", r2.status), g1.reqs \o g2.reqs)
                      ELSE Return(r2.body, g1.reqs \o g2.reqs)

\* VHSBerlinScout._follow_redirects
_follow_redirects(srv, initial_response) ==
    IF initial_response.status = 200
    THEN Return(initial_response.body, <<>>)
    ELSE LET loc == initial_response.loc
         IN  IF loc = NoLoc
             THEN Return(initial_response.body, <<>>)
             ELSE LET g1 == session_get(srv, loc, FALSE)
                      r1 == g1.resp
                  IN  IF r1.status = 200
                      THEN Return(r1.body, g1.reqs)
                      ELSE LET loc2 == r1.loc
                           IN  IF loc2 = NoLoc
                               THEN Return(r1.body, g1.reqs)
                               ELSE LET g2 == session_get(srv, loc2, TRUE)
                                        r2 == g2.resp
                                    IN  IF raise_for_status(r2)
                                        THEN Raise(Error("HTTPError", r2.status),
                                                   g1.reqs \o g2.reqs)
                                        ELSE Return(r2.body, g1.reqs \o g2.reqs)

\* a search that does not look at the POST's status
perform_search_unchecked_post(srv) ==
    LET g == session_get(srv, "/search", TRUE)
        r == g.resp
        hidden_inputs == _get_hidden_inputs(r.body)
    IN  IF raise_for_status(r)
        THEN Raise(Error("HTTPError", r.status), g.reqs)
        ELSE IF hidden_inputs.raised
        THEN Raise(Error("KeyError", 0), g.reqs)
        ELSE LET sent == g.reqs \o <<Req("POST", "/search", FALSE)>>
                 f == _follow_redirects(srv, srv.post)
             IN  [f EXCEPT !.reqs = sent \o f.reqs]

\* VHSBerlinScout.perform_search
perform_search(srv) ==
    LET g == session_get(srv, "/search", TRUE)
        r == g.resp
        hidden_inputs == _get_hidden_inputs(r.body)
    IN  IF raise_for_status(r)
        THEN Raise(Error("HTTPError", r.status), g.reqs)
        ELSE IF hidden_inputs.raised
        THEN Raise(Error("KeyError", 0), g.reqs)
        ELSE LET post_resp == srv.post
                 sent == g.reqs \o <<Req("POST", "/search", FALSE)>>
             IN  IF post_resp.status \notin {302, 200}
                 THEN Raise(Error("Unexpected POST response status", post_resp.status),
                            sent)
                 ELSE LET f == _follow_redirects(srv, post_resp)
                      IN  [f EXCEPT !.reqs = sent \o f.reqs]

\* the data of the POST of perform_search: <<>> when no POST is sent, else
\* <<payload>>
posted_payload(srv) ==
    LET r == session_get(srv, "/search", TRUE).resp
        hidden_inputs == _get_hidden_inputs(r.body)
    IN  IF raise_for_status(r) \/ hidden_inputs.raised
        THEN <<>>
        ELSE <<_build_search_payload(hidden_inputs.inputs)>>

(* ---------------------------------------------------------------------- *)
(* The run-number store and the notification sink (core/utils.py)          *)
(* ---------------------------------------------------------------------- *)

\* run_number.txt is missing, empty or does not hold an integer
NoFile == -1

\* what the file system does on a write: it works, open() fails, or the write
\* fails after open() has truncated the file
Disk == {"ok", "open_fails", "write_fails"}

\* utils.load_run_number: any exception yields 0
load_run_number(file, readable) ==
    IF readable /\ file # NoFile THEN file ELSE 0

\* a save that never reaches the file
save_run_number_lost(file, run_num, disk) ==
    [raised |-> disk # "ok", file |-> file]

\* utils.save_run_number: raised tells whether the exception leaves the function
save_run_number(file, run_num, disk) ==
    [raised |-> disk # "ok",
     file   |-> CASE disk = "ok" -> run_num
                  [] disk = "open_fails" -> file
                  [] disk = "write_fails" -> NoFile]

\* what the Telegram API does with one sendMessage request
Telegram == {"ok", "api_error", "network_exception"}

\* a send without the try/except around requests.post
send_telegram_message_unguarded(api) ==
    [raised |-> api = "network_exception", logged |-> api = "api_error"]

\* utils.send_telegram_message: raised tells whether an exception leaves the
\* function, logged whether the failure was logged
send_telegram_message(api) ==
    [raised |-> FALSE, logged |-> api # "ok"]

\* VHSBerlinScout.notify
notify(api) == send_telegram_message(api)

(* ---------------------------------------------------------------------- *)
(* The polling loop (BaseScout.run)                                        *)
(* ---------------------------------------------------------------------- *)

VARIABLES
    pc,            \* "start", "run" (top of while True), "loop" (test of the
                   \* inner while), "done" (after the inner while), "crashed"
    max_attempts,  \* config MAX_ATTEMPTS
    run_number,    \* local run_number of run()
    attempt,       \* local attempt of run()
    results,       \* local results of run()
    file,          \* content of run_number.txt
    events,        \* what the current run has done so far, in order
    runs,          \* number of runs started
    site,          \* the site's behaviour during the last attempt
    search,        \* what perform_search did in the last attempt
    delivery,      \* what the Telegram API did with the last step's message
    loaded,        \* the value load_run_number returned
    load_error,    \* the store could not be read at process start
    crash,         \* the call whose exception ended the process
    posted,        \* the data of the last attempt's POST, <<>> without a POST
    page,          \* html_text handed to parse_results
    parsed,        \* what parse_results returned for page, None before the call
    seconds,       \* the base delay handed to sleep, in seconds
    delay          \* the delay sleep waited, in tenths of a second; NoDelay before

\* the state of the functions that are tried on their own
fn_vars == <<page, parsed, seconds, delay>>

vars == <<pc, max_attempts, run_number, attempt, results, file, events, runs,
          site, search, delivery, loaded, load_error, crash, posted,
          page, parsed, seconds, delay>>

\* no sleep has been made
NoDelay == -1

\* one entry of events: what happened, and in which attempt (0: outside attempts)
Ev(e, n) == [e |-> e, n |-> n]

\* the site before the first attempt of a run
NoSite == Site(Idle, Idle, Idle, Idle, Idle)
NoSearch == Return(None, <<>>)

\* truth value of a Python object that is None or a non-empty dict
Truthy(x) == x # None

\* a loop test that admits one attempt too many
LoopCondOffByOne(a, m, r) == a <= m /\ ~Truthy(r)

\* a loop test that gives up one attempt early
LoopCondGivesUpEarly(a, m, r) == a < m - 1 /\ ~Truthy(r)

\* the test of the inner while
LoopCond(a, m, r) == a < m /\ ~Truthy(r)

\* an inverted test after the loop
SucceededInverted(r) == ~Truthy(r)

\* the test "if results:" after the inner while
Succeeded(r) == Truthy(r)

\* a success test that also wants a positive count
is_success_needs_courses(outcome) == outcome.success /\ outcome.course_count > 0

\* parsed.get("success", False)
is_success(outcome) == outcome.success

\* an except clause that catches only the POST status error
CatchesPostErrorOnly(err) == err.msg = "Unexpected POST response status"

\* "except Exception" catches every exception a search raises
Catches(err) == TRUE

\* an except clause that logs and does not notify
on_exception_log_only(n) == <<Ev("log_error", n)>>

\* the body of the except clause
on_exception(n) == <<Ev("log_error", n), Ev("notify_error", n)>>

\* a short sleep that is skipped when no attempt is left
short_sleep_if_more(n, m) == IF n < m THEN <<Ev("short_sleep", n)>> ELSE <<>>

\* self.sleep(short_wait) at the end of the loop body, in attempt n of m
short_sleep(n, m) == <<Ev("short_sleep", n)>>

\* the try block: perform_search, then parse_results
try_search(srv) ==
    LET s == perform_search(srv)
    IN  IF s.raised
        THEN [raised |-> TRUE, err |-> s.err, parsed |-> None]
        ELSE [raised |-> FALSE, err |-> NoError, parsed |-> parse_results(s.text)]

\* VHSBerlinScout.handle_success: build the message, notify, log
handle_success(rn, res, api) ==
    LET nt == notify(api)
    IN  [raised |-> nt.raised,
         events |-> <<Ev("handle_success", 0), Ev("notify_success", 0)>>
                    \o (IF nt.raised THEN <<>> ELSE <<Ev("log_success", 0)>>)]

\* a failure handler that raises while it builds its message
handle_failure_raises(rn, m, api) ==
    [raised |-> TRUE, events |-> <<Ev("handle_failure", 0)>>]

\* VHSBerlinScout.handle_failure: log, notify
handle_failure(rn, m, api) ==
    LET nt == notify(api)
    IN  [raised |-> nt.raised,
         events |-> <<Ev("handle_failure", 0), Ev("log_failure", 0),
                      Ev("notify_failure", 0)>>]

\* the polling loop before run() is entered, MAX_ATTEMPTS and the file given
InitLoop(m, f) ==
    /\ pc = "start"
    /\ max_attempts = m
    /\ file = f
    /\ run_number = 0
    /\ attempt = 0
    /\ results = None
    /\ events = <<>>
    /\ runs = 0
    /\ site = NoSite
    /\ search = NoSearch
    /\ delivery = "none"
    /\ loaded = 0
    /\ load_error = FALSE
    /\ crash = "none"
    /\ posted = <<>>

Init ==
    /\ \E m \in 0..MaxAttempts, f \in {NoFile} \cup 0..MaxStored : InitLoop(m, f)
    /\ page = PageOther
    /\ parsed = None
    /\ seconds = 0
    /\ delay = NoDelay

\* run_number = self.load_run_number()
Load ==
    /\ pc = "start"
    /\ \E readable \in BOOLEAN :
          /\ run_number' = load_run_number(file, readable)
          /\ loaded' = load_run_number(file, readable)
          /\ load_error' = ~readable
    /\ pc' = "run"
    /\ UNCHANGED <<max_attempts, attempt, results, file, events, runs, site,
                   search, delivery, crash, posted>>
    /\ UNCHANGED fn_vars

\* the head of one run: increment, save, log, notify, reset attempt and results
BeginRun ==
    /\ pc = "run"
    /\ runs < MaxRuns
    /\ \E disk \in Disk, api \in Telegram :
          LET n  == run_number + 1
              sv == save_run_number(file, n, disk)
              nt == notify(api)
          IN  /\ run_number' = n
              /\ file' = sv.file
              /\ runs' = runs + 1
              /\ site' = NoSite
              /\ search' = NoSearch
              /\ posted' = <<>>
              /\ IF sv.raised
                 THEN /\ pc' = "crashed"
                      /\ crash' = "save_run_number"
                      /\ events' = <<Ev("save_failed", 0)>>
                      /\ delivery' = "none"
                      /\ UNCHANGED <<attempt, results>>
                 ELSE /\ events' = <<Ev("save_run_number", 0), Ev("log_start", 0),
                                     Ev("notify_start", 0)>>
                      /\ delivery' = api
                      /\ IF nt.raised
                         THEN /\ pc' = "crashed"
                              /\ crash' = "notify"
                              /\ UNCHANGED <<attempt, results>>
                         ELSE /\ pc' = "loop"
                              /\ crash' = crash
                              /\ attempt' = 0
                              /\ results' = None
    /\ UNCHANGED <<max_attempts, loaded, load_error>>
    /\ UNCHANGED fn_vars

\* one pass through the body of the inner while
Attempt ==
    /\ pc = "loop"
    /\ LoopCond(attempt, max_attempts, results)
    /\ \E srv \in Servers :
          LET n   == attempt + 1
              t   == try_search(srv)
              ev  == events \o <<Ev("perform_search", n)>>
          IN  /\ attempt' = n
              /\ site' = srv
              /\ search' = perform_search(srv)
              /\ posted' = posted_payload(srv)
              /\ IF t.raised /\ ~Catches(t.err)
                 THEN \* the exception leaves run()
                      /\ pc' = "crashed"
                      /\ crash' = "search"
                      /\ events' = ev \o <<Ev("exception", n)>>
                      /\ delivery' = "none"
                      /\ results' = results
                 ELSE IF t.raised
                 THEN \* except Exception: log, notify; then the short sleep
                      \E api \in Telegram :
                         LET nt == notify(api)
                         IN  /\ events' = ev \o <<Ev("exception", n)>>
                                             \o on_exception(n)
                                             \o (IF nt.raised THEN <<>>
                                                 ELSE short_sleep(n, max_attempts))
                             /\ delivery' = api
                             /\ results' = results
                             /\ pc' = IF nt.raised THEN "crashed" ELSE "loop"
                             /\ crash' = IF nt.raised THEN "notify" ELSE crash
                 ELSE IF is_success(t.parsed)
                 THEN \* results = parsed; break
                      /\ events' = ev \o <<Ev("success", n)>>
                      /\ delivery' = "none"
                      /\ results' = t.parsed
                      /\ pc' = "done"
                      /\ crash' = crash
                 ELSE \* no exception, no success: the short sleep
                      /\ events' = ev \o <<Ev("negative", n)>>
                                      \o short_sleep(n, max_attempts)
                      /\ delivery' = "none"
                      /\ results' = results
                      /\ pc' = "loop"
                      /\ crash' = crash
    /\ UNCHANGED <<max_attempts, run_number, file, runs, loaded, load_error>>
    /\ UNCHANGED fn_vars

\* the test of the inner while fails
ExitLoop ==
    /\ pc = "loop"
    /\ ~LoopCond(attempt, max_attempts, results)
    /\ pc' = "done"
    /\ delivery' = "none"
    /\ UNCHANGED <<max_attempts, run_number, attempt, results, file, events, runs,
                   site, search, loaded, load_error, crash, posted>>
    /\ UNCHANGED fn_vars

\* the handler of the run's outcome, then the long sleep
Finish ==
    /\ pc = "done"
    /\ \E api \in Telegram :
          LET h == IF Succeeded(results)
                   THEN handle_success(run_number, results, api)
                   ELSE handle_failure(run_number, max_attempts, api)
          IN  /\ delivery' = api
              /\ events' = events \o h.events
                             \o (IF h.raised THEN <<>> ELSE <<Ev("long_sleep", 0)>>)
              /\ pc' = IF h.raised THEN "crashed" ELSE "run"
              /\ crash' = IF h.raised THEN "notify" ELSE crash
    /\ UNCHANGED <<max_attempts, run_number, attempt, results, file, runs, site,
                   search, loaded, load_error, posted>>
    /\ UNCHANGED fn_vars

Next == Load \/ BeginRun \/ Attempt \/ ExitLoop \/ Finish

Spec == Init /\ [][Next]_vars

\* the largest MAX_ATTEMPTS of the loop under its scheduling
MaxAttemptsLive == 2

\* the loop before run() is entered, with a small attempt budget
InitLive ==
    /\ \E m \in 0..MaxAttemptsLive, f \in {NoFile} \cup 0..MaxStored :
          InitLoop(m, f)
    /\ page = PageOther
    /\ parsed = None
    /\ seconds = 0
    /\ delay = NoDelay

\* the loop under its scheduling: one thread that takes the next step
\* whenever there is one (every search, notification and sleep returns)
SpecLive == InitLive /\ [][Next]_vars /\ WF_vars(Next)

(* ---------------------------------------------------------------------- *)
(* parse_results on its own                                                *)
(* ---------------------------------------------------------------------- *)

InitParse ==
    /\ InitLoop(0, NoFile)
    /\ page \in AllPages
    /\ parsed = None
    /\ seconds = 0
    /\ delay = NoDelay

\* parsed = self.parse_results(search_results)
Parse ==
    /\ parsed = None
    /\ parsed' = parse_results(page)
    /\ UNCHANGED <<pc, max_attempts, run_number, attempt, results, file, events,
                   runs, site, search, delivery, loaded, load_error, crash,
                   posted, page, seconds, delay>>

NextParse == Parse

SpecParse == InitParse /\ [][NextParse]_vars

(* ---------------------------------------------------------------------- *)
(* sleep and random_delay on their own; delays in tenths of a second       *)
(* ---------------------------------------------------------------------- *)

\* the jitter of one second of base delay, in tenths of a second (0.3)
JitterTenths == 3

Max(a, b) == IF a >= b THEN a ELSE b

\* random.uniform(a, b): every value between a and b, whichever is larger
uniform(a, b) == IF a <= b THEN a..b ELSE b..a

\* a delay with 50% jitter
random_delay_half(base_seconds) ==
    LET jitter == base_seconds * 5
    IN  {Max(0, base_seconds * 10 + u) : u \in uniform(-jitter, jitter)}

\* utils.random_delay: the delays it can return for base_seconds
random_delay(base_seconds) ==
    LET jitter == base_seconds * JitterTenths
    IN  {Max(0, base_seconds * 10 + u) : u \in uniform(-jitter, jitter)}

InitDelay ==
    /\ InitLoop(0, NoFile)
    /\ page = PageOther
    /\ parsed = None
    /\ seconds \in -MaxBase..MaxBase
    /\ delay = NoDelay

\* BaseScout.sleep(seconds)
Sleep ==
    /\ \E d \in random_delay(seconds) : delay' = d
    /\ UNCHANGED <<pc, max_attempts, run_number, attempt, results, file, events,
                   runs, site, search, delivery, loaded, load_error, crash,
                   posted, page, parsed, seconds>>

NextDelay == Sleep

SpecDelay == InitDelay /\ [][NextDelay]_vars

(* ---------------------------------------------------------------------- *)
(* Reading the events of a run                                             *)
(* ---------------------------------------------------------------------- *)

\* how often e occurs in the current run
Count(e) == Cardinality({i \in DOMAIN events : events[i].e = e})

\* the positions at which e occurs
At(e) == {i \in DOMAIN events : events[i].e = e}

\* the event at position i, "" beyond the end
EvAt(i) == IF i \in DOMAIN events THEN events[i].e ELSE ""

\* the outcome of attempt n of the current run: "exception", "negative",
\* "success", or "" when attempt n has not been made
Outcome(n) ==
    IF \E i \in DOMAIN events : events[i].e = "perform_search" /\ events[i].n = n
    THEN EvAt((CHOOSE i \in DOMAIN events :
                  events[i].e = "perform_search" /\ events[i].n = n) + 1)
    ELSE ""

\* the run has ended: its handler and long sleep are done
RunEnded == pc = "run" /\ runs > 0

Handlers == Count("handle_success") + Count("handle_failure")

(* ---------------------------------------------------------------------- *)
(* Properties                                                              *)
(* ---------------------------------------------------------------------- *)

\* C1: in every run the number of perform_search calls never exceeds
\* max_attempts, no handler runs while the run is still searching, and when
\* the run has ended (the only place a next run starts from) exactly one of
\* handle_success and handle_failure has been invoked, exactly once.
C1_AttemptsBoundedOneHandler ==
    /\ Count("perform_search") <= max_attempts
    /\ attempt <= max_attempts
    /\ Handlers <= 1
    /\ pc \in {"loop", "done"} => Handlers = 0
    /\ RunEnded => Handlers = 1

C1_Witness ==
    /\ RunEnded
    /\ max_attempts = MaxAttempts
    /\ Count("perform_search") = max_attempts
    /\ Count("handle_failure") = 1
    /\ runs = MaxRuns

\* C2: if attempts 1..k-1 of a run raised and attempt k returned a parsed
\* outcome with success true, the run makes exactly k attempts, sends exactly
\* k-1 failure notifications, cannot start attempt k+1, and ends with
\* handle_success called once on that outcome and handle_failure never.
C2_SuccessAtK ==
    \A k \in 1..max_attempts :
        ((\A j \in 1..(k-1) : Outcome(j) = "exception") /\ Outcome(k) = "success")
        => /\ Count("perform_search") = k
           /\ attempt = k
           /\ Count("notify_error") = k - 1
           /\ pc \in {"done", "run"}
           /\ results = parse_results(search.text)
           /\ Count("handle_failure") = 0
           /\ RunEnded => Count("handle_success") = 1

C2_Witness ==
    /\ RunEnded
    /\ max_attempts = 4
    /\ Outcome(1) = "exception"
    /\ Outcome(2) = "exception"
    /\ Outcome(3) = "success"
    /\ Count("perform_search") = 3
    /\ Count("notify_error") = 2
    /\ Count("handle_success") = 1

\* C3: if no attempt of a run succeeds and max_attempts >= 1, the loop is
\* left only after exactly max_attempts attempts, and the run ends with
\* handle_failure called once and handle_success never.
C3_ExhaustedAfterAllAttempts ==
    (/\ max_attempts >= 1
     /\ pc \in {"done", "run"}
     /\ runs > 0
     /\ Count("success") = 0)
    => /\ Count("perform_search") = max_attempts
       /\ \A n \in 1..max_attempts : Outcome(n) \in {"negative", "exception"}
       /\ Count("handle_success") = 0
       /\ RunEnded => Count("handle_failure") = 1

C3_Witness ==
    /\ RunEnded
    /\ max_attempts = 3
    /\ \A n \in 1..3 : Outcome(n) = "negative"
    /\ Count("perform_search") = 3
    /\ Count("handle_failure") = 1

\* C4 as claimed: every short sleep of the loop comes directly after the log
\* and the notification of the attempt that failed before it, whether that
\* attempt raised or returned an outcome without success.
C4_EveryFailedAttemptNotified ==
    \A i \in At("short_sleep") :
        EvAt(i - 1) = "notify_error" /\ EvAt(i - 2) = "log_error"

\* C4 as amended: an attempt that raised is logged, then notified, then
\* followed by the short sleep; an attempt that returned an outcome without
\* success is followed by the short sleep with no log and no notification.
C4_OnlyExceptionsNotified ==
    /\ \A i \in At("exception") :
          /\ EvAt(i + 1) = "log_error"
          /\ EvAt(i + 2) = "notify_error"
          /\ EvAt(i + 3) = "short_sleep"
    /\ \A i \in At("negative") : EvAt(i + 1) = "short_sleep"
    /\ Count("notify_error") = Count("exception")
    /\ Count("log_error") = Count("exception")

C4_Witness ==
    /\ pc = "loop"
    /\ Outcome(1) = "exception"
    /\ Outcome(2) = "negative"
    /\ EvAt(Len(events)) = "short_sleep"
    /\ Count("notify_error") = 1

\* C5: an exception raised by the search never ends the process: it is
\* counted as one attempt, and after it the run is at the loop test with no
\* result (so that the next attempt or the exhausted path follows), or has
\* gone on from there; a run whose last attempt raised ends in handle_failure.
C5_ExceptionsStayInLoop ==
    /\ crash # "search"
    /\ Count("exception") + Count("negative") + Count("success")
          = Count("perform_search")
    /\ Count("perform_search") > 0 => Count("perform_search") = attempt
    /\ \A n \in 1..MaxAttempts + 1 :
          (Outcome(n) = "exception" /\ attempt = n)
          => /\ pc \in {"loop", "done", "run"}
             /\ results = None
             /\ RunEnded => Count("handle_failure") = 1

C5_Witness ==
    /\ RunEnded
    /\ max_attempts = 2
    /\ Outcome(1) = "exception"
    /\ Outcome(2) = "exception"
    /\ search.err.msg = "HTTPError"
    /\ Count("handle_failure") = 1

\* C6: the run number is the loaded value plus the number of runs started
\* (one increment per run); each run's first event is the save, before the
\* run-start notification and before every search; and whenever a run is in
\* or past its attempts the file holds the current run number.
C6_RunNumberPersistedFirst ==
    /\ pc # "start" => run_number = loaded + runs
    /\ pc \in {"loop", "done"} => file = run_number
    /\ Count("perform_search") > 0 => file = run_number
    /\ (events # <<>> /\ pc # "crashed")
       => /\ EvAt(1) = "save_run_number"
          /\ EvAt(3) = "notify_start"
          /\ \A i \in At("perform_search") : i > 3

C6_Witness ==
    /\ pc = "loop"
    /\ runs = 2
    /\ loaded = 1
    /\ run_number = 3
    /\ file = 3
    /\ Count("perform_search") = 1

\* C7 as claimed: when the store cannot be read at process start or cannot
\* be written at the start of a run, the process ends and no search is made.
C7_StoreFailureIsFatal ==
    /\ load_error => (Count("perform_search") = 0 /\ pc \notin {"loop", "done"})
    /\ EvAt(1) = "save_failed" => pc = "crashed"

\* C8: a failed send never ends the process, and the step that sent the
\* message goes on exactly as the code goes on after notify returns: to the
\* loop test after the run-start message, to the short sleep and the loop
\* test after an error message, to the long sleep after a handler's message.
C8_SendFailureNotPropagated ==
    /\ crash # "notify"
    /\ delivery \in {"api_error", "network_exception"}
       => \/ pc = "loop" /\ attempt = 0 /\ EvAt(Len(events)) = "notify_start"
          \/ pc = "loop" /\ attempt > 0 /\ EvAt(Len(events)) = "short_sleep"
                         /\ EvAt(Len(events) - 1) = "notify_error"
          \/ pc = "run" /\ EvAt(Len(events)) = "long_sleep" /\ Handlers = 1

C8_Witness ==
    /\ delivery = "network_exception"
    /\ pc = "loop"
    /\ attempt = 2
    /\ Outcome(2) = "exception"

\* C9: when the POST answers 302 to /A, /A answers 302 to /B and /B answers
\* 200, perform_search returns /B's body after the requests GET form, POST,
\* GET /A, GET /B; when the POST answers 200, perform_search returns the
\* POST's body and sends no GET after the POST.
C9_LastBodyOfChain ==
    LET form == site.get["/search"]
        post == site.post
        a    == site.get["/A"]
        b    == site.get["/B"]
    IN  /\ (/\ form.status = 200
            /\ post.status = 302 /\ post.loc = "/A"
            /\ a.status = 302 /\ a.loc = "/B"
            /\ b.status = 200)
           => /\ ~search.raised
              /\ search.text = b.body
              /\ search.reqs = <<Req("GET", "/search", TRUE),
                                 Req("POST", "/search", FALSE),
                                 Req("GET", "/A", FALSE),
                                 Req("GET", "/B", TRUE)>>
        /\ (form.status = 200 /\ post.status = 200)
           => /\ ~search.raised
              /\ search.text = post.body
              /\ search.reqs = <<Req("GET", "/search", TRUE),
                                 Req("POST", "/search", FALSE)>>

C9_Witness ==
    /\ attempt > 0
    /\ site.post = PostToA
    /\ site.get["/A"] = AToB
    /\ site.get["/B"] = Resp(200, NoLoc, PageNoCourses)
    /\ search.text = PageNoCourses
    /\ search.text # site.post.body
    /\ search.text # site.get["/A"].body

\* the third hop: /B itself answers with a redirect to /C
ThirdHop ==
    /\ site.get["/search"].status = 200
    /\ site.post.status = 302 /\ site.post.loc = "/A"
    /\ site.get["/A"].status = 302 /\ site.get["/A"].loc = "/B"
    /\ site.get["/B"].status = 302 /\ site.get["/B"].loc = "/C"

\* the paths requested in the last attempt
Requested == {search.reqs[i].path : i \in DOMAIN search.reqs}

\* C10 as claimed: when the second redirect target answers with a further
\* redirect, that third hop is not requested and the second target's body,
\* the last one received, is returned.
C10_ThirdHopNotFollowed ==
    ThirdHop => /\ "/C" \notin Requested
                /\ ~search.raised
                /\ search.text = site.get["/B"].body

\* C10 as amended: _follow_redirects calls GET at most twice after the POST,
\* the first time without and the second time with redirect following; a
\* further request is sent only by the session following a redirect of the
\* second target, and then the final response decides: its body is returned,
\* or the attempt fails when its status is 4xx or 5xx.
C10_ThirdHopFollowedBySession ==
    LET after == SubSeq(search.reqs, 3, Len(search.reqs))
        b     == site.get["/B"]
        c     == site.get["/C"]
    IN  /\ Len(after) >= 1
           => after[1] = Req("GET", site.post.loc, FALSE)
        /\ Len(after) >= 2
           => after[2] = Req("GET", site.get["/A"].loc, TRUE)
        /\ Len(after) >= 3
           => /\ is_redirect(b)
              /\ \A i \in 3..Len(after) : after[i].allow_redirects
        /\ ThirdHop
           => /\ after = <<Req("GET", "/A", FALSE), Req("GET", "/B", TRUE),
                           Req("GET", "/C", TRUE)>>
              /\ c.status = 200 => (~search.raised /\ search.text = c.body)
              /\ c.status >= 400 => (search.raised /\ search.err.msg = "HTTPError")

C10_Witness ==
    /\ ThirdHop
    /\ site.get["/C"] = Resp(200, NoLoc, PageCourses)
    /\ search.text = PageCourses
    /\ search.text # site.get["/B"].body
    /\ "/C" \in Requested

\* the last attempt sent the POST
PostSent == \E i \in DOMAIN search.reqs : search.reqs[i].method = "POST"

\* C11 as claimed: an attempt whose initial GET is answered with a status
\* outside 2xx fails after that one request, without a POST; an attempt whose
\* POST is answered with a status outside {200, 302} fails after the POST,
\* without a redirect GET, with an error that carries the status.
C11_NonOkStatusFailsAttempt ==
    site # NoSite =>
       /\ site.get["/search"].status \notin 200..299
          => /\ search.raised
             /\ search.reqs = <<Req("GET", "/search", TRUE)>>
             /\ posted = <<>>
       /\ (PostSent /\ site.post.status \notin {200, 302})
          => /\ search.raised
             /\ search.err = Error("Unexpected POST response status", site.post.status)
             /\ Len(search.reqs) = 2

\* C11 as amended: the initial GET fails the attempt, without a POST, when
\* its status is 4xx or 5xx; with any other status (a 3xx that the session
\* does not follow included) the POST is sent; the POST part is as claimed.
C11_ErrorStatusFailsAttempt ==
    site # NoSite =>
       /\ site.get["/search"].status \in 400..599
          => /\ search.raised
             /\ search.err = Error("HTTPError", site.get["/search"].status)
             /\ search.reqs = <<Req("GET", "/search", TRUE)>>
             /\ posted = <<>>
       /\ (site.get["/search"].status \in 300..399 /\ ~search.raised)
          => /\ PostSent
             /\ posted # <<>>
       /\ (PostSent /\ site.post.status \notin {200, 302})
          => /\ search.raised
             /\ search.err = Error("Unexpected POST response status", site.post.status)
             /\ Len(search.reqs) = 2

C11_Witness ==
    /\ site.get["/search"].status = 200
    /\ site.post.status = 500
    /\ PostSent
    /\ search.raised
    /\ search.err.status = 500
    /\ Outcome(attempt) = "exception"

\* the page shows the no-courses message in its error label
ShowsNoCourses(p) ==
    /\ p.error_el # <<>>
    /\ \E i \in DOMAIN p.error_el[1] : p.error_el[1][i] = NoCoursesMsg

\* the page has a title element whose text contains the marker
TitleHasMarker(p) ==
    /\ p.title # <<>>
    /\ \E i \in DOMAIN p.title[1] : p.title[1][i] = Marker

\* the value of both failure branches
Failure == [success |-> FALSE, has_courses |-> FALSE]

\* C12: for every page that shows the no-courses message, parse_results
\* returns the no-results value (success false), whatever title, summary and
\* rows the page has.
C12_NoCoursesMessageWins ==
    (parsed # None /\ ShowsNoCourses(page)) => parsed = Failure

C12_Witness ==
    /\ parsed = Failure
    /\ page.error_el = << <<"Hinweis:", NoCoursesMsg>> >>
    /\ TitleHasMarker(page)
    /\ page.summary = << <<Num(3)>> >>
    /\ Len(page.rows) = 2

\* C13: for every page whose title element is missing or lacks the marker,
\* parse_results never reports success, whatever summary and rows it has.
C13_NoMarkerNoSuccess ==
    (parsed # None /\ ~TitleHasMarker(page)) => ~parsed.success

C13_Witness ==
    /\ parsed # None
    /\ page.title = <<>>
    /\ ~ShowsNoCourses(page)
    /\ page.summary = << <<Num(3)>> >>
    /\ Len(page.rows) = 2
    /\ ~parsed.success

\* C14 as claimed: the value returned for a page with the no-courses message
\* differs from the value returned for every page that has neither the
\* message nor the marked title.
C14_NoResultsDiffersFromUnrecognized ==
    (parsed # None /\ ShowsNoCourses(page))
    => \A q \in AllPages :
          (~ShowsNoCourses(q) /\ ~TitleHasMarker(q)) => parse_results(q) # parsed

\* C14 as amended: parse_results returns one and the same value, success
\* false and has_courses false, for a page with the no-courses message and
\* for a page with neither the message nor the marked title; that value
\* differs only from the value of a recognised result list.
C14_NoResultsEqualsUnrecognized ==
    (parsed # None /\ ShowsNoCourses(page))
    => \A q \in AllPages :
          IF ~ShowsNoCourses(q) /\ ~TitleHasMarker(q)
          THEN parse_results(q) = parsed
          ELSE ShowsNoCourses(q) \/ parse_results(q) # parsed

C14_Witness ==
    /\ parsed = Failure
    /\ ShowsNoCourses(page)
    /\ parse_results(Page(<<>>, << <<"Startseite">> >>, <<>>, <<>>)) = parsed

\* the first integer of the summary, 0 when it is missing or has no digits
ExpectedCount(p) ==
    IF p.summary = <<>> \/ \A i \in DOMAIN p.summary[1] : ~p.summary[1][i].digits
    THEN 0
    ELSE LET first == CHOOSE i \in DOMAIN p.summary[1] :
                         /\ p.summary[1][i].digits
                         /\ \A j \in 1..(i - 1) : ~p.summary[1][j].digits
         IN  p.summary[1][first].n

\* the text of a cell, "N/A" for a missing cell
CellText(c) == IF c = NoCell THEN "N/A" ELSE c

\* C15: for a recognised result page, parse_results reports success with the
\* count equal to the first integer of the summary (0 without digits or
\* without summary) and one record per row, in page order, missing cells read
\* as "N/A"; count and number of records are not reconciled.
C15_CountAndRecordsIndependent ==
    (parsed # None /\ ~ShowsNoCourses(page) /\ TitleHasMarker(page))
    => /\ parsed.success
       /\ parsed.has_courses
       /\ parsed.course_count = ExpectedCount(page)
       /\ Len(parsed.courses) = Len(page.rows)
       /\ \A i \in DOMAIN page.rows :
             /\ parsed.courses[i].district = CellText(page.rows[i].district)
             /\ parsed.courses[i].course_title = CellText(page.rows[i].course_title)
             /\ parsed.courses[i].free_places = CellText(page.rows[i].free_places)

C15_Witness ==
    /\ parsed # None
    /\ ~ShowsNoCourses(page)
    /\ TitleHasMarker(page)
    /\ page.summary = << <<Word("Kurse"), Num(2), Word("von"), Num(7)>> >>
    /\ Len(page.rows) = 3
    /\ parsed.course_count = 2
    /\ Len(parsed.courses) = 3
    /\ parsed.courses[2].district = "N/A"

\* C16 as claimed: for any form page that was fetched, the extraction does
\* not fail; the POST carries exactly the seven hidden names besides the
\* static fields, a name whose input is absent from the page carries "", and
\* every other name carries the page's value unchanged.
C16_HiddenInputsNeverFail ==
    (site # NoSite /\ ~raise_for_status(site.get["/search"]))
    => LET hidden == site.get["/search"].body.hidden
       IN  /\ search.err.msg # "KeyError"
           /\ posted # <<>>
           /\ DOMAIN posted[1] = HiddenSet \cup StaticFields
           /\ \A x \in HiddenSet :
                 posted[1][x] = IF hidden[x] = NoCell THEN "" ELSE hidden[x]

\* C17 as claimed: for every base delay B the delay lies in
\* [max(0, 0.7 B), 1.3 B] and is not negative (delay in tenths of a second).
C17_DelayInInterval ==
    delay # NoDelay
    => /\ delay >= Max(0, 7 * seconds)
       /\ delay <= 13 * seconds
       /\ delay >= 0

\* C17 as amended: for every base delay B >= 0 the delay lies in
\* [0.7 B, 1.3 B]; for every B, negative ones included, the delay is not
\* negative, and for B < 0 it is 0.
C17_DelayInIntervalForNonNegativeBase ==
    delay # NoDelay
    => /\ seconds >= 0 => (delay >= 7 * seconds /\ delay <= 13 * seconds)
       /\ seconds < 0 => delay = 0
       /\ delay >= 0

C17_Witness ==
    /\ seconds = 2
    /\ delay = 26

\* the attempts of the current run that failed
Failed == Count("exception") + Count("negative")

\* C19: in a run the short sleeps are exactly the failed attempts: each
\* failed attempt, the last one of an exhausted run included, is followed by
\* one short sleep of that attempt, so handle_failure comes directly after
\* the short sleep of attempt max_attempts; a successful attempt has no short
\* sleep, and handle_success comes directly after it.
C19_ShortSleepAfterEachFailure ==
    /\ Count("short_sleep") = Failed
    /\ \A i \in At("short_sleep") :
          Outcome(events[i].n) \in {"exception", "negative"}
    /\ \A i \in At("exception") \cup At("negative") :
          \E j \in At("short_sleep") : j > i /\ j <= i + 3 /\ events[j].n = events[i].n
    /\ \A i \in At("handle_failure") :
          max_attempts >= 1
          => (EvAt(i - 1) = "short_sleep" /\ events[i - 1].n = max_attempts)
    /\ \A i \in At("handle_success") : EvAt(i - 1) = "success"

C19_Witness ==
    /\ RunEnded
    /\ max_attempts = 2
    /\ Outcome(1) = "negative"
    /\ Outcome(2) = "exception"
    /\ Count("short_sleep") = 2
    /\ Count("handle_failure") = 1

\* the page is a recognised result list
Recognised(p) == ~ShowsNoCourses(p) /\ TitleHasMarker(p)

\* C20: parse_results reports success exactly for the pages without the
\* no-courses message whose title contains the marker, whatever their count
\* and rows; an attempt that returned such a page is the successful one; and
\* a run whose last page is a recognised list with count 0 and no rows ends
\* in handle_success with an empty list of courses.
C20_SuccessIffRecognised ==
    /\ pc = "start" => \A q \in AllPages : parse_results(q).success <=> Recognised(q)
    /\ (site # NoSite /\ ~search.raised)
       => (Outcome(attempt) = "success" <=> Recognised(search.text))
    /\ (/\ RunEnded
        /\ site # NoSite
        /\ ~search.raised
        /\ Recognised(search.text)
        /\ ExpectedCount(search.text) = 0
        /\ search.text.rows = <<>>)
       => /\ Count("handle_success") = 1
          /\ Count("handle_failure") = 0
          /\ results.success
          /\ results.course_count = 0
          /\ results.courses = <<>>

C20_Witness ==
    /\ RunEnded
    /\ search.text = PageEmptyList
    /\ Count("handle_success") = 1
    /\ results.course_count = 0
    /\ results.courses = <<>>

\* C18 as claimed: the loop has no terminal state: the process start and
\* every ended run are followed by the start of the next run, which reaches
\* its attempts (for every run within the explored number of runs).
C18_NextRunAlwaysStarts ==
    \A k \in 0..(MaxRuns - 1) :
        (pc = "run" /\ runs = k) ~> (pc = "loop" /\ runs = k + 1)

\* C18 as amended: a run that is in its attempts has made no long sleep, an
\* ended run (success or exhausted attempts) has made exactly one long sleep
\* as its last step, and run after run is started and ended, up to the
\* explored number of runs, unless the save of the run number fails, which
\* ends the process.
C18_NextRunStartsUnlessSaveFails ==
    /\ [](RunEnded => (Count("long_sleep") = 1 /\ EvAt(Len(events)) = "long_sleep"))
    /\ [](pc \in {"loop", "done"} => Count("long_sleep") = 0)
    /\ <>((RunEnded /\ runs = MaxRuns) \/ crash = "save_run_number")

C18_Witness ==
    /\ pc = "loop"
    /\ runs = 2
    /\ attempt = 0
    /\ EvAt(3) = "notify_start"
    /\ crash = "none"

====
